---------------------------- MODULE Spec2Model ----------------------------
(***************************************************************************)
(* holytunnel.c: the server thread (holytunnel_run and the _server_        *)
(* functions), the worker threads (_worker_event_loop_thrd,                *)
(* _worker_handle_client_state) and the Client records they share          *)
(* (_worker_client_add, _worker_client_del).                               *)
(*                                                                         *)
(* Spec      the whole program: one server thread and NWorkers worker      *)
(*           threads, interleaved at every access to shared memory.        *)
(* PairSpec  _worker_client_add, _worker_client_del and                    *)
(*           _worker_handle_client_state applied one after the other on a  *)
(*           single worker, with calls that pass a non-NULL peer.  The     *)
(*           state handlers of holytunnel.c never make such a call, so     *)
(*           linked records exist under PairSpec only.                     *)
(***************************************************************************)
EXTENDS Integers, Sequences, FiniteSets, TLC

(* ------------------------------ bounds --------------------------------- *)
\* get_nprocs(): the number of workers
NWorkers == 2
\* records one worker's slab can hold before mempool_alloc reports ENOMEM
NSlots == 2
\* connections accept() hands out during one run
MaxConns == 3
\* events one epoll_wait call returns (CFG_EVENT_SIZE)
MaxBatch == 2

(* ------------------------- program constants --------------------------- *)
_CLIENT_STATE_HEADER == 0
_CLIENT_STATE_RESOLVER == 1
_CLIENT_STATE_CONNECT == 2
_CLIENT_STATE_RESPONSE == 3
_CLIENT_STATE_FORWARD_HEADER == 4
_CLIENT_STATE_FORWARD_ALL == 5
_CLIENT_STATE_STOP == 6
EPOLLIN == 1
EPOLLOUT == 4

\* the null pointer
NULL == 0
\* an indeterminate value: the content of a record that mempool_alloc has
\* handed out and nobody has written yet, or that mempool_free has taken back
GARBAGE == -1
\* a pointer that refers to no Client record
WILD == -2
\* a descriptor number that names no open file
BADFD == 0
\* an int that is none of the _CLIENT_STATE_ values
STATE_UNKNOWN == 7

Workers == 0 .. (NWorkers - 1)
Slots == 1 .. NSlots
\* Client pointers: record s of worker w's slab is w * NSlots + s
Ptrs == 1 .. (NWorkers * NSlots)
PtrOf(w, s) == w * NSlots + s
OwnerOf(p) == (p - 1) \div NSlots
PtrsOf(w) == {p \in Ptrs : OwnerOf(p) = w}
Conns == 1 .. MaxConns
\* descriptor numbers accept() can return
FDs == 1 .. MaxConns
\* what the peer of an accepted socket has sent when its record is dispatched
Requests == {"valid", "malformed", "overflow", "eof"}

NoReg == [ptr |-> NULL, ev |-> 0]
FreshRec == [state |-> GARBAGE, src_fd |-> GARBAGE, peer |-> GARBAGE, ev |-> GARBAGE]

VARIABLES
    sys,          \* memory and kernel objects, see SysInit
    srv,          \* struct server and the server thread's locals and position
    is_alive,     \* Worker.is_alive
    wpc,          \* each worker thread's position
    wres,         \* each Worker's epoll descriptor and slab: none, live, destroyed
    batch,        \* events[i..count-1] of the thread's current epoll_wait
    wcl,          \* _worker_handle_client_state: client
    wstate,       \* _worker_handle_client_state: state
    wfrom,        \* the value the switch of _worker_handle_client_state ran on
    wreq,         \* what had arrived on the client's socket at that dispatch
    pc2           \* PairSpec: the position of the single thread

vars == <<sys, srv, is_alive, wpc, wres, batch, wcl, wstate, wfrom, wreq, pc2>>

(* ---------------------- memory and kernel objects ---------------------- *)
\*  rec        the bytes of each slab record
\*  alloc      whether the slab has the record handed out
\*  ep         each worker's epoll interest list: descriptor -> data.ptr, events
\*  fdConn     the connection an open descriptor number refers to (0: closed)
\*  lastConn   the last connection accept() returned the number for
\*  closeCount close() calls made on the number of a connection's socket
\*  relCount   releases of the record allocated for a connection
\*  slotConn   the connection a record was last allocated for
\*  recFor     whether a record was allocated for the connection
\*  nconn      connections accepted so far
\*  assigned   the worker of each successful assignment, in order
\*  fault      none | abort (abort() was called) | undefined (a wild pointer
\*             was dereferenced or a record freed twice: anything may follow)
SysInit ==
    [rec |-> [p \in Ptrs |-> FreshRec],
     alloc |-> [p \in Ptrs |-> FALSE],
     ep |-> [w \in Workers |-> [f \in FDs |-> NoReg]],
     fdConn |-> [f \in FDs |-> 0],
     lastConn |-> [f \in FDs |-> 0],
     closeCount |-> [c \in Conns |-> 0],
     relCount |-> [c \in Conns |-> 0],
     slotConn |-> [p \in Ptrs |-> 0],
     recFor |-> [c \in Conns |-> FALSE],
     nconn |-> 0,
     assigned |-> <<>>,
     fault |-> "none"]

\* The values a read of an int, descriptor or pointer field can yield.
ReadState(v) == IF v = GARBAGE THEN 0 .. STATE_UNKNOWN ELSE {v}
ReadFd(v) == IF v = GARBAGE THEN FDs \cup {BADFD} ELSE {v}
ReadPeer(v) == IF v = GARBAGE THEN {NULL, WILD} ELSE {v}

Fault(s, f) == [s EXCEPT !.fault = f]

\* close(fd): the descriptor number is released and the kernel drops the
\* socket from every interest list; EBADF changes nothing.
sys_close(s, fd) ==
    IF fd \notin FDs THEN s
    ELSE [s EXCEPT
            !.closeCount = IF s.lastConn[fd] = 0 THEN @
                           ELSE [@ EXCEPT ![s.lastConn[fd]] = @ + 1],
            !.fdConn[fd] = 0,
            !.ep = [w \in Workers |-> [@[w] EXCEPT ![fd] = NoReg]]]

\* accept(): the lowest descriptor number not in use
LowestFreeFd(s) ==
    CHOOSE f \in FDs : s.fdConn[f] = 0 /\ \A g \in FDs : s.fdConn[g] = 0 => f <= g

sys_accept(s) ==
    LET f == LowestFreeFd(s)
        c == s.nconn + 1
    IN  [s EXCEPT !.nconn = c, !.fdConn[f] = c, !.lastConn[f] = c]

\* mempool_alloc: any record not handed out
mempool_alloc(s, w) == {p \in PtrsOf(w) : ~s.alloc[p]}

mempool_take(s, p, c) ==
    [s EXCEPT !.alloc[p] = TRUE, !.slotConn[p] = c, !.recFor[c] = TRUE]

\* mempool_free: the record goes back to the slab, which may reuse its bytes
mempool_free(s, p) ==
    IF ~s.alloc[p]
    THEN Fault([s EXCEPT !.relCount = IF s.slotConn[p] = 0 THEN @
                                      ELSE [@ EXCEPT ![s.slotConn[p]] = @ + 1]],
               "undefined")
    ELSE [s EXCEPT !.alloc[p] = FALSE,
                   !.rec[p] = FreshRec,
                   !.relCount = IF s.slotConn[p] = 0 THEN @
                                ELSE [@ EXCEPT ![s.slotConn[p]] = @ + 1]]


(* ------------------------------- Client -------------------------------- *)
EvInOut == EPOLLIN + EPOLLOUT

\* _worker_client_add, lines 314-323: the record is taken from the slab and
\* its event is filled in; every other field keeps what the bytes held.
_worker_client_add_alloc(s, p, c) ==
    [mempool_take(s, p, c) EXCEPT !.rec[p].ev = EPOLLIN]

\* Whether epoll_ctl(EPOLL_CTL_ADD) can succeed: the descriptor is open and
\* not yet on the worker's interest list.
CanRegister(s, w, fd) == s.fdConn[fd] # 0 /\ s.ep[w][fd].ptr = NULL

\* _worker_client_add, line 324, epoll_ctl succeeds: from here on epoll_wait
\* of worker w can deliver the record.
_worker_client_add_register(s, w, fd, p) ==
    [s EXCEPT !.ep[w][fd] = [ptr |-> p, ev |-> s.rec[p].ev]]

\* lines 325-327 without the mempool_free
_worker_client_add_unwind_leak(s, p) == s

\* _worker_client_add, lines 325-327: epoll_ctl fails
_worker_client_add_unwind(s, p) == mempool_free(s, p)

\* _worker_client_add, lines 330-338
_worker_client_add_init(s, p, fd, state, peer) ==
    [s EXCEPT !.rec[p] = [@ EXCEPT !.state = state, !.src_fd = fd, !.peer = peer]]

\* lines 348-360 without line 359, peer->peer = NULL
_worker_client_del_peer_keep(s, w, peerv, pfd) ==
    IF peerv = NULL THEN s
    ELSE IF peerv \notin Ptrs THEN Fault(s, "undefined")
    ELSE IF pfd \notin FDs \/ s.ep[w][pfd].ptr = NULL
         THEN Fault([s EXCEPT !.rec[peerv].ev = EvInOut], "abort")
    ELSE [s EXCEPT !.rec[peerv] = [@ EXCEPT !.ev = EvInOut,
                                            !.state = _CLIENT_STATE_STOP],
                   !.ep[w][pfd] = [ptr |-> peerv, ev |-> EvInOut]]

\* lines 348-360 without line 358, peer->state = _CLIENT_STATE_STOP
_worker_client_del_peer_no_stop(s, w, peerv, pfd) ==
    IF peerv = NULL THEN s
    ELSE IF peerv \notin Ptrs THEN Fault(s, "undefined")
    ELSE IF pfd \notin FDs \/ s.ep[w][pfd].ptr = NULL
         THEN Fault([s EXCEPT !.rec[peerv].ev = EvInOut], "abort")
    ELSE [s EXCEPT !.rec[peerv] = [@ EXCEPT !.ev = EvInOut, !.peer = NULL],
                   !.ep[w][pfd] = [ptr |-> peerv, ev |-> EvInOut]]

\* _worker_client_del, lines 348-360, for the values its reads of
\* client->peer (peerv) and peer->src_fd (pfd) yield.
_worker_client_del_peer(s, w, peerv, pfd) ==
    IF peerv = NULL THEN s
    ELSE IF peerv \notin Ptrs THEN Fault(s, "undefined")
    ELSE IF pfd \notin FDs \/ s.ep[w][pfd].ptr = NULL
         THEN Fault([s EXCEPT !.rec[peerv].ev = EvInOut], "abort")
    ELSE [s EXCEPT !.rec[peerv] = [@ EXCEPT !.ev = EvInOut,
                                            !.state = _CLIENT_STATE_STOP,
                                            !.peer = NULL],
                   !.ep[w][pfd] = [ptr |-> peerv, ev |-> EvInOut]]

\* _worker_client_del, lines 362-371, for the value its read of
\* client->src_fd (fdv) yields.
_worker_client_del_self(s, w, client, fdv) ==
    IF fdv \notin FDs \/ s.ep[w][fdv].ptr = NULL THEN Fault(s, "abort")
    ELSE mempool_free(sys_close([s EXCEPT !.ep[w][fdv] = NoReg], fdv), client)

_worker_client_del(s, w, client, peerv, pfd, fdv) ==
    LET s1 == _worker_client_del_peer(s, w, peerv, pfd)
    IN  IF s1.fault # "none" THEN s1
        ELSE _worker_client_del_self(s1, w, client, fdv)

\* The state handlers; req is what has arrived on the client's socket.
_worker_client_state_header(req) == _CLIENT_STATE_STOP
_worker_client_state_resolver(req) == _CLIENT_STATE_STOP
_worker_client_state_connect(req) == _CLIENT_STATE_STOP
_worker_client_state_response(req) == _CLIENT_STATE_STOP
_worker_client_state_forward_header(req) == _CLIENT_STATE_STOP
_worker_client_state_forward_all(req) == _CLIENT_STATE_STOP

\* What a dispatch of a record in the given state writes to the record's
\* socket or to its peer's: the bytes that have arrived (input), for the
\* handler that relays them.  No handler of lines 375-421 calls send or
\* write, and a state without a case runs no handler.
HandlerOutput(state, input) == <<>>

\* _worker_handle_client_state, lines 280-300: the switch on client->state
HandlerSwitch(state, req) ==
    CASE state = _CLIENT_STATE_HEADER -> _worker_client_state_header(req)
      [] state = _CLIENT_STATE_RESOLVER -> _worker_client_state_resolver(req)
      [] state = _CLIENT_STATE_CONNECT -> _worker_client_state_connect(req)
      [] state = _CLIENT_STATE_RESPONSE -> _worker_client_state_response(req)
      [] state = _CLIENT_STATE_FORWARD_HEADER -> _worker_client_state_forward_header(req)
      [] state = _CLIENT_STATE_FORWARD_ALL -> _worker_client_state_forward_all(req)
      [] OTHER -> state

\* The values client->peer, peer->src_fd and client->src_fd can yield in
\* _worker_client_del.
PeerFdReads(s, peerv) ==
    IF peerv \in Ptrs THEN ReadFd(s.rec[peerv].src_fd) ELSE {BADFD}

\* _worker_on_destroy_active_client on every record the slab still has handed
\* out, lowest address first, then the slab lets go of them
RECURSIVE DrainFrom(_, _, _)
DrainFrom(s, w, p) ==
    IF p > NWorkers * NSlots THEN s
    ELSE IF OwnerOf(p) # w \/ ~s.alloc[p] THEN DrainFrom(s, w, p + 1)
    ELSE LET fdv == IF s.rec[p].src_fd = GARBAGE THEN BADFD ELSE s.rec[p].src_fd
             s1 == sys_close(s, fdv)
             s2 == [s1 EXCEPT !.alloc[p] = FALSE,
                              !.rec[p] = FreshRec,
                              !.relCount = IF s.slotConn[p] = 0 THEN @
                                           ELSE [@ EXCEPT ![s.slotConn[p]] = @ + 1]]
         IN  DrainFrom(s2, w, p + 1)

mempool_deinit(s, w) == DrainFrom(s, w, 1)

\* line 632 without the advance
NextWorker_stuck(curr) == curr

\* s->workers_curr = (curr + 1) % s->workers_len
NextWorker(curr) == (curr + 1) % NWorkers

(* ------------------------------- Init ---------------------------------- *)
SrvInit ==
    [pc |-> "create", i |-> 0, j |-> 0, workers_curr |-> 0, is_alive |-> 0,
     ret |-> -1, fd |-> BADFD, conn |-> 0, curr |-> 0, client |-> NULL,
     mode |-> "run", dead |-> FALSE]

WorkerIdle ==
    /\ batch = [w \in Workers |-> <<>>]
    /\ wcl = [w \in Workers |-> NULL]
    /\ wstate = [w \in Workers |-> 0]
    /\ wfrom = [w \in Workers |-> 0]
    /\ wreq = [w \in Workers |-> "none"]

\* holytunnel_run has opened its sockets and is about to call
\* _server_create_workers.
Init ==
    /\ sys = SysInit
    /\ srv = SrvInit
    /\ is_alive = [w \in Workers |-> 0]
    /\ wpc = [w \in Workers |-> "none"]
    /\ wres = [w \in Workers |-> "none"]
    /\ WorkerIdle
    /\ pc2 = "off"

Running == sys.fault = "none" /\ pc2 = "off"

wvars == <<is_alive, wpc, wres, batch, wcl, wstate, wfrom, wreq>>
wlocals == <<batch, wcl, wstate, wfrom, wreq>>

(* ------------------------------ Server --------------------------------- *)
\* lines 545-550 without the while loop: -1 is returned at once
CreateFailed_no_teardown(i) ==
    [srv EXCEPT !.pc = "returned", !.ret = -1, !.mode = "err"]

\* _server_create_workers, lines 545-550, when _worker_create has failed for
\* worker i: while (i--) _worker_destroy(&workers[i]), then return -1
CreateFailed(i) ==
    IF i = 0
    THEN [srv EXCEPT !.pc = "returned", !.ret = -1, !.mode = "err"]
    ELSE [srv EXCEPT !.pc = "destroy_store", !.i = i - 1, !.mode = "err"]

\* _server_create_workers, lines 519-526: one _worker_create call (196-227).
\* On success the new thread exists and has not run yet.
SrvCreateWorker ==
    /\ Running /\ srv.pc = "create"
    /\ \E ok \in BOOLEAN :
         IF ok
         THEN /\ is_alive' = [is_alive EXCEPT ![srv.i] = 0]
              /\ wres' = [wres EXCEPT ![srv.i] = "live"]
              /\ wpc' = [wpc EXCEPT ![srv.i] = "start"]
              /\ srv' = IF srv.i + 1 = NWorkers
                        THEN [srv EXCEPT !.i = srv.i + 1, !.pc = "wait", !.j = 0,
                                         !.workers_curr = 0]
                        ELSE [srv EXCEPT !.i = srv.i + 1]
         ELSE /\ srv' = CreateFailed(srv.i)
              /\ UNCHANGED <<is_alive, wres, wpc>>
    /\ UNCHANGED <<sys, wlocals, pc2>>

\* line 534 with the test left out
WorkerSeenAlive_unchecked(j) == TRUE

\* _server_create_workers, line 534: atomic_load(&s->workers[j].is_alive)
WorkerSeenAlive(j) == is_alive[j] # 0

\* _server_create_workers, lines 533-543: one turn of the polling loop;
\* after the last worker, _server_event_loop sets s->is_alive (line 577).
SrvWaitWorker ==
    /\ Running /\ srv.pc = "wait"
    /\ srv' = IF ~WorkerSeenAlive(srv.j) THEN srv
              ELSE IF srv.j + 1 = srv.i
                   THEN [srv EXCEPT !.j = srv.j + 1, !.pc = "loop", !.is_alive = 1]
                   ELSE [srv EXCEPT !.j = srv.j + 1]
    /\ UNCHANGED <<sys, wvars, pc2>>

\* The thread of worker w has left its event loop (lines 266-271).
WorkerDead(w) == wpc[w] = "exited"

\* _server_event_handle_listener, lines 618-625: accept() returns a socket;
\* dead notes whether the thread of the worker whose turn it is had already
\* returned
SrvAccept ==
    /\ Running /\ srv.pc = "loop" /\ sys.nconn < MaxConns
    /\ sys' = sys_accept(sys)
    /\ srv' = [srv EXCEPT !.pc = "add_alloc", !.fd = LowestFreeFd(sys),
                          !.conn = sys.nconn + 1, !.curr = srv.workers_curr,
                          !.dead = WorkerDead(srv.workers_curr)]
    /\ UNCHANGED <<wvars, pc2>>

\* _worker_client_add, lines 314-323, called from the server thread
SrvAddAlloc ==
    /\ Running /\ srv.pc = "add_alloc"
    /\ \/ \E p \in mempool_alloc(sys, srv.curr) :
            /\ sys' = _worker_client_add_alloc(sys, p, srv.conn)
            /\ srv' = [srv EXCEPT !.pc = "add_register", !.client = p]
       \/ /\ srv' = [srv EXCEPT !.pc = "add_failed", !.client = NULL]
          /\ UNCHANGED sys
    /\ UNCHANGED <<wvars, pc2>>

\* _worker_client_add, lines 324-328
SrvAddRegister ==
    /\ Running /\ srv.pc = "add_register"
    /\ \/ /\ CanRegister(sys, srv.curr, srv.fd)
          /\ sys' = _worker_client_add_register(sys, srv.curr, srv.fd, srv.client)
          /\ srv' = [srv EXCEPT !.pc = "add_init"]
       \/ /\ sys' = _worker_client_add_unwind(sys, srv.client)
          /\ srv' = [srv EXCEPT !.pc = "add_failed", !.client = NULL]
    /\ UNCHANGED <<wvars, pc2>>

\* _worker_client_add, lines 330-339, and _server_event_handle_listener,
\* line 632
SrvAddInit ==
    /\ Running /\ srv.pc = "add_init"
    /\ sys' = [_worker_client_add_init(sys, srv.client, srv.fd, _CLIENT_STATE_HEADER, NULL)
                 EXCEPT !.assigned = Append(@, srv.curr)]
    /\ srv' = [srv EXCEPT !.pc = "loop", !.workers_curr = NextWorker(srv.curr),
                          !.fd = BADFD, !.conn = 0, !.client = NULL,
                          !.dead = FALSE]
    /\ UNCHANGED <<wvars, pc2>>

\* _server_event_handle_listener, lines 626-630: the assignment failed
SrvAddFailed ==
    /\ Running /\ srv.pc = "add_failed"
    /\ sys' = sys_close(sys, srv.fd)
    /\ srv' = [srv EXCEPT !.pc = "listener_failed"]
    /\ UNCHANGED <<wvars, pc2>>

\* _server_event_handle_listener returns after a failed assignment
SrvListenerReturn ==
    /\ Running /\ srv.pc = "listener_failed"
    /\ srv' = [srv EXCEPT !.pc = "loop", !.fd = BADFD, !.conn = 0, !.dead = FALSE]
    /\ UNCHANGED <<sys, wvars, pc2>>

\* _server_event_handle_signal, SIGHUP (line 646); also accept() or read()
\* failing (lines 619-622, 640-643): the loop goes round
SrvSignalHup ==
    /\ Running /\ srv.pc = "loop"
    /\ UNCHANGED vars

\* _server_event_handle_signal, SIGINT or SIGQUIT (lines 648-653), or poll
\* interrupted (line 581): the loop ends with ret = 0
SrvSignalStop ==
    /\ Running /\ srv.pc = "loop"
    /\ srv' = [srv EXCEPT !.pc = "destroy_store", !.is_alive = 0, !.ret = 0,
                          !.i = 0, !.mode = "shutdown"]
    /\ UNCHANGED <<sys, wvars, pc2>>

\* _server_event_loop, lines 584-600: poll fails or reports POLLERR/POLLHUP
SrvPollError ==
    /\ Running /\ srv.pc = "loop"
    /\ srv' = [srv EXCEPT !.pc = "destroy_store", !.is_alive = 0, !.ret = -1,
                          !.i = 0, !.mode = "shutdown"]
    /\ UNCHANGED <<sys, wvars, pc2>>

\* _worker_destroy, line 234
SrvDestroyStore ==
    /\ Running /\ srv.pc = "destroy_store"
    /\ is_alive' = [is_alive EXCEPT ![srv.i] = 0]
    /\ srv' = [srv EXCEPT !.pc = "destroy_join"]
    /\ UNCHANGED <<sys, wpc, wres, wlocals, pc2>>

\* _worker_destroy, line 235: thrd_join returns once the thread has returned
SrvDestroyJoin ==
    /\ Running /\ srv.pc = "destroy_join"
    /\ wpc[srv.i] = "exited"
    /\ srv' = [srv EXCEPT !.pc = "destroy_deinit"]
    /\ wpc' = [wpc EXCEPT ![srv.i] = "joined"]
    /\ UNCHANGED <<sys, is_alive, wres, wlocals, pc2>>

\* _worker_destroy, lines 237-238, and the loop that called it
\* (lines 546-550 or 558-562)
SrvDestroyDeinit ==
    /\ Running /\ srv.pc = "destroy_deinit"
    /\ sys' = mempool_deinit(sys, srv.i)
    /\ wres' = [wres EXCEPT ![srv.i] = "destroyed"]
    /\ srv' = IF srv.mode = "err"
              THEN IF srv.i = 0 THEN [srv EXCEPT !.pc = "returned", !.ret = -1]
                   ELSE [srv EXCEPT !.pc = "destroy_store", !.i = srv.i - 1]
              ELSE IF srv.i + 1 = NWorkers THEN [srv EXCEPT !.pc = "returned"]
                   ELSE [srv EXCEPT !.pc = "destroy_store", !.i = srv.i + 1]
    /\ UNCHANGED <<is_alive, wpc, wlocals, pc2>>

(* ------------------------------ Worker --------------------------------- *)
\* _worker_event_loop_thrd, line 251
WkStart(w) ==
    /\ Running /\ wpc[w] = "start"
    /\ is_alive' = [is_alive EXCEPT ![w] = 1]
    /\ wpc' = [wpc EXCEPT ![w] = "loop"]
    /\ UNCHANGED <<sys, srv, wres, wlocals, pc2>>

\* lines 252, 266-270: the loop sees is_alive = 0 and the thread returns
WkLoopExit(w) ==
    /\ Running /\ wpc[w] = "loop" /\ is_alive[w] = 0
    /\ wpc' = [wpc EXCEPT ![w] = "exited"]
    /\ UNCHANGED <<sys, srv, is_alive, wres, wlocals, pc2>>

\* lines 253-260, 268-270: epoll_wait fails (EINTR or another error)
WkEpollError(w) ==
    /\ Running /\ wpc[w] = "loop" /\ is_alive[w] = 1
    /\ is_alive' = [is_alive EXCEPT ![w] = 0]
    /\ wpc' = [wpc EXCEPT ![w] = "exited"]
    /\ UNCHANGED <<sys, srv, wres, wlocals, pc2>>

\* The event arrays epoll_wait can fill: data.ptr of up to MaxBatch
\* descriptors on the interest list, in any order.
RECURSIVE BatchesOf(_, _)
BatchesOf(fds, n) ==
    IF n = 0 THEN {<<>>}
    ELSE {<<>>} \cup UNION {{<<f>> \o b : b \in BatchesOf(fds \ {f}, n - 1)} : f \in fds}

Registered(s, w) == {f \in FDs : s.ep[w][f].ptr # NULL}

Batches(s, w) ==
    {[k \in 1 .. Len(b) |-> s.ep[w][b[k]].ptr] : b \in BatchesOf(Registered(s, w), MaxBatch)}

\* line 253: epoll_wait returns count >= 0 events (0: the timeout)
WkEpollWait(w) ==
    /\ Running /\ wpc[w] = "loop" /\ is_alive[w] = 1
    /\ \E b \in Batches(sys, w) :
         /\ batch' = [batch EXCEPT ![w] = b]
         /\ wpc' = [wpc EXCEPT ![w] = IF b = <<>> THEN "loop" ELSE "handle"]
    /\ UNCHANGED <<sys, srv, is_alive, wres, wcl, wstate, wfrom, wreq, pc2>>

\* _worker_handle_client_state, lines 280-303, on events[i].data.ptr
WkHandle(w) ==
    /\ Running /\ wpc[w] = "handle"
    /\ LET client == Head(batch[w])
       IN  \E state \in ReadState(sys.rec[client].state), req \in Requests,
              peerv \in ReadPeer(sys.rec[client].peer),
              fdv \in ReadFd(sys.rec[client].src_fd) :
             \E pfd \in PeerFdReads(sys, peerv) :
               LET next == HandlerSwitch(state, req)
               IN  /\ sys' = IF next = _CLIENT_STATE_STOP
                             THEN _worker_client_del(sys, w, client, peerv, pfd, fdv)
                             ELSE sys
                   /\ wcl' = [wcl EXCEPT ![w] = client]
                   /\ wstate' = [wstate EXCEPT ![w] = next]
                   /\ wfrom' = [wfrom EXCEPT ![w] = state]
                   /\ wreq' = [wreq EXCEPT ![w] = req]
    /\ wpc' = [wpc EXCEPT ![w] = "store"]
    /\ UNCHANGED <<srv, is_alive, wres, batch, pc2>>

\* _worker_handle_client_state, line 305, and the for of line 262
WkStore(w) ==
    /\ Running /\ wpc[w] = "store"
    /\ sys' = [sys EXCEPT !.rec[wcl[w]].state = wstate[w]]
    /\ batch' = [batch EXCEPT ![w] = Tail(@)]
    /\ wpc' = [wpc EXCEPT ![w] = IF Len(batch[w]) = 1 THEN "loop" ELSE "handle"]
    /\ wcl' = [wcl EXCEPT ![w] = NULL]
    /\ wstate' = [wstate EXCEPT ![w] = 0]
    /\ wfrom' = [wfrom EXCEPT ![w] = 0]
    /\ wreq' = [wreq EXCEPT ![w] = "none"]
    /\ UNCHANGED <<srv, is_alive, wres, pc2>>

Next ==
    \/ SrvCreateWorker
    \/ SrvWaitWorker
    \/ SrvAccept
    \/ SrvAddAlloc
    \/ SrvAddRegister
    \/ SrvAddInit
    \/ SrvAddFailed
    \/ SrvListenerReturn
    \/ SrvSignalHup
    \/ SrvSignalStop
    \/ SrvPollError
    \/ SrvDestroyStore
    \/ SrvDestroyJoin
    \/ SrvDestroyDeinit
    \/ \E w \in Workers : WkStart(w)
    \/ \E w \in Workers : WkLoopExit(w)
    \/ \E w \in Workers : WkEpollError(w)
    \/ \E w \in Workers : WkEpollWait(w)
    \/ \E w \in Workers : WkHandle(w)
    \/ \E w \in Workers : WkStore(w)

Spec == Init /\ [][Next]_vars

(* ------------------------------ PairSpec ------------------------------- *)
\* _worker_client_add, lines 314-339, when mempool_alloc returns p and
\* epoll_ctl succeeds
_worker_client_add(s, w, p, c, fd, state, peer) ==
    _worker_client_add_init(
        _worker_client_add_register(_worker_client_add_alloc(s, p, c), w, fd, p),
        p, fd, state, peer)

\* the records epoll_wait of worker w can deliver
Deliverable(s, w) == {s.ep[w][f].ptr : f \in Registered(s, w)}

PairInit ==
    /\ sys = SysInit
    /\ srv = [SrvInit EXCEPT !.pc = "off"]
    /\ is_alive = [w \in Workers |-> 1]
    /\ wpc = [w \in Workers |-> "off"]
    /\ wres = [w \in Workers |-> "live"]
    /\ WorkerIdle
    /\ pc2 = "idle"

Pairing == sys.fault = "none" /\ pc2 # "off"

\* _server_event_handle_listener, lines 618-630, with nothing running
\* beside it: accept, then _worker_client_add(w, fd, -1, HEADER, NULL), which
\* succeeds, or fails at mempool_alloc or at epoll_ctl.
PairAccept(w) ==
    /\ Pairing /\ pc2 = "idle" /\ sys.nconn < MaxConns
    /\ LET s0 == sys_accept(sys)
           fd == LowestFreeFd(sys)
           c == sys.nconn + 1
       IN  \/ \E p \in mempool_alloc(s0, w) :
                sys' = _worker_client_add(s0, w, p, c, fd, _CLIENT_STATE_HEADER, NULL)
           \/ sys' = sys_close(s0, fd)
           \/ \E p \in mempool_alloc(s0, w) :
                sys' = sys_close(_worker_client_add_unwind(_worker_client_add_alloc(s0, p, c), p), fd)
    /\ UNCHANGED <<srv, wvars, pc2>>

\* The CONNECT stage as spec.md 4.3 has it: a socket to the target is open
\* and _worker_client_add(w, trg_fd, src_fd, state, client) is called for the
\* record of the inbound socket.
PairConnect(a) ==
    /\ Pairing /\ pc2 = "idle" /\ sys.nconn < MaxConns
    /\ sys.alloc[a] /\ sys.rec[a].peer = NULL
    /\ sys.rec[a].state = _CLIENT_STATE_HEADER
    /\ LET s0 == sys_accept(sys)
           fd == LowestFreeFd(sys)
           c == sys.nconn + 1
       IN  \E p \in mempool_alloc(s0, OwnerOf(a)) :
             /\ sys' = _worker_client_add(s0, OwnerOf(a), p, c, fd,
                                          _CLIENT_STATE_FORWARD_ALL, a)
             /\ wcl' = [wcl EXCEPT ![OwnerOf(a)] = p]
    /\ pc2' = "linking"
    /\ UNCHANGED <<srv, is_alive, wpc, wres, batch, wstate, wfrom, wreq>>

\* spec.md 4.3, "link peer both ways": the inbound record is pointed at the
\* record _worker_client_add has just made.
PairLink ==
    /\ Pairing /\ pc2 = "linking"
    /\ \E p \in Ptrs :
         /\ wcl[OwnerOf(p)] = p
         /\ sys' = [sys EXCEPT !.rec[sys.rec[p].peer].peer = p]
         /\ wcl' = [wcl EXCEPT ![OwnerOf(p)] = NULL]
    /\ pc2' = "idle"
    /\ UNCHANGED <<srv, is_alive, wpc, wres, batch, wstate, wfrom, wreq>>

\* _worker_handle_client_state, lines 280-303, as far as line 360 of
\* _worker_client_del
PairHandle(client) ==
    /\ Pairing /\ pc2 = "idle"
    /\ client \in Deliverable(sys, OwnerOf(client))
    /\ LET w == OwnerOf(client)
       IN  \E state \in ReadState(sys.rec[client].state), req \in Requests,
              peerv \in ReadPeer(sys.rec[client].peer) :
             \E pfd \in PeerFdReads(sys, peerv) :
               LET next == HandlerSwitch(state, req)
               IN  /\ sys' = IF next = _CLIENT_STATE_STOP
                             THEN _worker_client_del_peer(sys, w, peerv, pfd)
                             ELSE sys
                   /\ pc2' = IF next = _CLIENT_STATE_STOP THEN "del_self" ELSE "store"
                   /\ wcl' = [wcl EXCEPT ![w] = client]
                   /\ wstate' = [wstate EXCEPT ![w] = next]
                   /\ wfrom' = [wfrom EXCEPT ![w] = state]
                   /\ wreq' = [wreq EXCEPT ![w] = req]
    /\ UNCHANGED <<srv, is_alive, wpc, wres, batch>>

\* _worker_client_del, lines 362-371
PairDelSelf ==
    /\ Pairing /\ pc2 = "del_self"
    /\ \E w \in Workers :
         /\ wcl[w] # NULL
         /\ \E fdv \in ReadFd(sys.rec[wcl[w]].src_fd) :
              sys' = _worker_client_del_self(sys, w, wcl[w], fdv)
    /\ pc2' = "store"
    /\ UNCHANGED <<srv, wvars>>

\* _worker_handle_client_state, line 305
PairStore ==
    /\ Pairing /\ pc2 = "store"
    /\ \E w \in Workers :
         /\ wcl[w] # NULL
         /\ sys' = [sys EXCEPT !.rec[wcl[w]].state = wstate[w]]
         /\ wcl' = [wcl EXCEPT ![w] = NULL]
         /\ wstate' = [wstate EXCEPT ![w] = 0]
         /\ wfrom' = [wfrom EXCEPT ![w] = 0]
         /\ wreq' = [wreq EXCEPT ![w] = "none"]
    /\ pc2' = "idle"
    /\ UNCHANGED <<srv, is_alive, wpc, wres, batch>>

PairNext ==
    \/ \E w \in Workers : PairAccept(w)
    \/ \E a \in Ptrs : PairConnect(a)
    \/ PairLink
    \/ \E c \in Ptrs : PairHandle(c)
    \/ PairDelSelf
    \/ PairStore

PairSpec == PairInit /\ [][PairNext]_vars

\* The worker's loop (lines 252-264) keeps calling epoll_wait and dispatches
\* what it returns: a record whose socket stays ready is dispatched, and a
\* dispatch that has begun runs to its end.
PairFairSpec ==
    /\ PairSpec
    /\ \A c \in Ptrs : WF_vars(PairHandle(c))
    /\ WF_vars(PairLink)
    /\ WF_vars(PairDelSelf)
    /\ WF_vars(PairStore)

(* ------------------------------- Claims -------------------------------- *)
Accepted == 1 .. sys.nconn

\* C1: every accepted connection's socket is closed exactly once and its
\* Client record released exactly once: never twice at any time, and never
\* zero times once holytunnel_run has returned.
C1_ClosedExactlyOnce ==
    /\ \A c \in Conns : sys.closeCount[c] <= 1 /\ sys.relCount[c] <= 1
    /\ srv.pc = "returned" =>
         \A c \in Accepted :
            /\ sys.closeCount[c] = 1
            /\ sys.relCount[c] = IF sys.recFor[c] THEN 1 ELSE 0

\* The server thread is inside _worker_client_add for worker w: its next
\* step is mempool_alloc, epoll_ctl, mempool_free or a store into a record of
\* w's slab.
ServerInAdd(w) ==
    srv.pc \in {"add_alloc", "add_register", "add_init"} /\ srv.curr = w

\* Worker w's thread is inside its event loop.
WorkerRunning(w) == wpc[w] \in {"loop", "handle", "store"}

\* C4: a worker's slab and epoll registration set are touched by that
\* worker's thread only: the server thread is never inside
\* _worker_client_add for a worker whose thread is running its event loop.
C4_SlabConfinedToWorker ==
    \A w \in Workers : ServerInAdd(w) => ~WorkerRunning(w)

AssignedTo(w) == Cardinality({k \in 1 .. Len(sys.assigned) : sys.assigned[k] = w})

\* C5: the k-th successful assignment (k from 0) goes to worker k mod W, and
\* after N of them every worker holds floor(N/W) or ceil(N/W).
C5_RoundRobin ==
    LET N == Len(sys.assigned)
    IN  /\ \A k \in 1 .. N : sys.assigned[k] = (k - 1) % NWorkers
        /\ \A w \in Workers :
             AssignedTo(w) \in {N \div NWorkers, (N + NWorkers - 1) \div NWorkers}

\* every worker has been assigned a connection and the cursor has wrapped
\* round, one assignment having failed on the way
C5_Witness ==
    /\ Len(sys.assigned) >= NWorkers
    /\ srv.workers_curr = Len(sys.assigned) % NWorkers
    /\ sys.nconn > Len(sys.assigned)
    /\ srv.pc = "loop"

\* the place of a state in HEADER, RESOLVER, CONNECT, (RESPONSE |
\* FORWARD_HEADER), FORWARD_ALL, STOP
StateRank(st) ==
    CASE st = _CLIENT_STATE_FORWARD_HEADER -> _CLIENT_STATE_RESPONSE
      [] st = _CLIENT_STATE_STOP -> _CLIENT_STATE_STOP
      [] OTHER -> st

IsState(st) == st \in _CLIENT_STATE_HEADER .. _CLIENT_STATE_STOP

\* C6: a record's state field only moves forward through HEADER, RESOLVER,
\* CONNECT, (RESPONSE | FORWARD_HEADER), FORWARD_ALL, STOP; the record is in
\* STOP when _worker_client_del reclaims it; and no handler runs on a record
\* in STOP.
C6_StateSequence ==
    [][ /\ \A p \in Ptrs :
             /\ ( /\ sys.alloc[p] /\ sys'.alloc[p]
                  /\ IsState(sys.rec[p].state) /\ sys'.rec[p].state # sys.rec[p].state )
                => ( /\ IsState(sys'.rec[p].state)
                     /\ StateRank(sys'.rec[p].state) > StateRank(sys.rec[p].state) )
             /\ ( /\ sys.alloc[p] /\ ~sys'.alloc[p] /\ IsState(sys.rec[p].state)
                  /\ \E w \in Workers : wpc[w] = "handle" /\ wpc'[w] = "store" )
                => sys.rec[p].state = _CLIENT_STATE_STOP
             /\ ( ~sys.alloc[p] /\ ~sys'.alloc[p] /\ sys.rec[p].state = _CLIENT_STATE_STOP )
                => sys'.rec[p].state = _CLIENT_STATE_STOP
        /\ \A w \in Workers :
             (wpc[w] = "handle" /\ wpc'[w] = "store" /\ wfrom'[w] = _CLIENT_STATE_STOP)
             => wstate'[w] = _CLIENT_STATE_STOP
      ]_vars

\* C7: a record in HEADER dispatched with a complete, valid request goes to
\* RESOLVER; it goes to STOP only on a malformed request, an overflow of the
\* header buffer or the peer closing.
C7_ValidHeaderGoesToResolver ==
    \A w \in Workers :
       (wpc[w] = "store" /\ wfrom[w] = _CLIENT_STATE_HEADER)
       => /\ wreq[w] = "valid" => wstate[w] = _CLIENT_STATE_RESOLVER
          /\ wstate[w] = _CLIENT_STATE_STOP => wreq[w] \in {"malformed", "overflow", "eof"}

\* _worker_create has returned 0 for worker w
Created(w) == wres[w] # "none"

\* the thread of worker w has executed line 251
MarkedAlive(w) == wpc[w] \notin {"none", "start"}

\* _server_create_workers has returned 0
WorkersStarted == srv.j = NWorkers

C9_StartAlwaysReturns ==
    /\ srv.pc = "wait" => (is_alive[srv.j] = 1 \/ wpc[srv.j] = "start")
    /\ \A p \in Ptrs : sys.alloc[p] => MarkedAlive(OwnerOf(p))

\* C10: after a failed _worker_client_add no record is allocated for the
\* call and src_fd is on no interest list of the worker; the listener then
\* closes the socket once and leaves workers_curr as it was.
C10_FailedAddLeavesNothing ==
    /\ srv.pc \in {"add_failed", "listener_failed"} =>
         /\ \A p \in Ptrs : sys.alloc[p] => sys.slotConn[p] # srv.conn
         /\ sys.ep[srv.curr][srv.fd].ptr = NULL
         /\ srv.workers_curr = srv.curr
    /\ srv.pc = "add_failed" => sys.closeCount[srv.conn] = 0
    /\ srv.pc = "listener_failed" =>
         /\ sys.closeCount[srv.conn] = 1
         /\ sys.fdConn[srv.fd] = 0

\* epoll_ctl failed: a record had been allocated for the call, and the
\* listener has closed the socket
C10_Witness ==
    /\ srv.pc = "listener_failed"
    /\ sys.recFor[srv.conn]
    /\ sys.relCount[srv.conn] = 1

C3_PeerMutual ==
    \A p \in Ptrs :
       (sys.alloc[p] /\ sys.rec[p].peer # NULL)
       => /\ sys.rec[p].peer \in PtrsOf(OwnerOf(p))
          /\ sys.alloc[sys.rec[p].peer]
          /\ sys.rec[sys.rec[p].peer].peer = p

\* C11: a connection accepted when the thread of the worker whose turn it is
\* has already exited is a failed assignment: _worker_client_add creates no
\* record in that worker's slab and registers nothing, and the listener
\* closes the socket.
C11_DeadWorkerAssignmentFails ==
    srv.dead =>
       /\ srv.pc \in {"add_alloc", "add_failed", "listener_failed"}
       /\ \A p \in PtrsOf(srv.curr) : sys.alloc[p] => sys.slotConn[p] # srv.conn
       /\ srv.pc = "listener_failed" => sys.closeCount[srv.conn] = 1

\* C14: when _server_create_workers returns -1 because a _worker_create
\* failed, every worker created before has been destroyed (flag cleared,
\* thread joined, epoll descriptor closed, slab deinitialised) and no worker
\* thread is running.
C14_CreateFailureTearsDown ==
    (srv.pc = "returned" /\ srv.mode = "err") =>
       \A w \in Workers :
          /\ wres[w] \in {"none", "destroyed"}
          /\ wpc[w] \in {"none", "joined"}
          /\ is_alive[w] = 0
          /\ \A p \in PtrsOf(w) : ~sys.alloc[p]

\* _server_create_workers has returned -1 after destroying a worker whose
\* thread had been started
C14_Witness ==
    /\ srv.pc = "returned" /\ srv.mode = "err"
    /\ \E w \in Workers : wres[w] = "destroyed" /\ wpc[w] = "joined"

\* _server_event_loop has returned 0: SIGINT or SIGQUIT was read (or poll
\* was interrupted)
Stopping == srv.mode = "shutdown" /\ srv.ret = 0

\* C12: after SIGINT or SIGQUIT no connection is accepted any more and
\* _server_event_loop returns 0; from then on nothing keeps holytunnel_run
\* from returning (no thread aborts or runs into undefined behaviour, and a
\* worker being joined has its flag cleared); and when holytunnel_run has
\* returned every worker is joined, no record is allocated and every
\* accepted socket is closed.
C12_GracefulShutdown ==
    Stopping =>
       /\ srv.pc \in {"destroy_store", "destroy_join", "destroy_deinit", "returned"}
       /\ srv.is_alive = 0
       /\ sys.fault = "none"
       /\ srv.pc = "destroy_join" => is_alive[srv.i] = 0
       /\ srv.pc = "returned" =>
            /\ \A w \in Workers : wpc[w] = "joined" /\ wres[w] = "destroyed"
            /\ \A p \in Ptrs : ~sys.alloc[p]
            /\ \A f \in FDs : sys.fdConn[f] = 0

\* C13: when the surviving half of a pair (in STOP since its peer was
\* removed) is dispatched, one write of its pending output is attempted on
\* its socket before it is removed.
C13_SurvivorFlushesOnce ==
    \A w \in Workers :
       ( /\ pc2 \in {"del_self", "store"}
         /\ wcl[w] # NULL
         /\ wfrom[w] = _CLIENT_STATE_STOP )
       => HandlerOutput(wfrom[w], <<"pending">>) = <<"pending">>

\* byte sequences read from one socket of an established tunnel
Chunks == {<<"a">>, <<"a", "b">>, <<"b", "a", "a">>}

\* C16: a record in FORWARD_ALL dispatched when bytes have arrived writes
\* exactly those bytes, in order, to the other socket and stays in
\* FORWARD_ALL.
C16_ForwardAllRelays ==
    \A w \in Workers :
       ( /\ pc2 \in {"del_self", "store"}
         /\ wcl[w] # NULL
         /\ wfrom[w] = _CLIENT_STATE_FORWARD_ALL
         /\ wreq[w] # "eof" )
       => /\ wstate[w] = _CLIENT_STATE_FORWARD_ALL
          /\ \A chunk \in Chunks : HandlerOutput(wfrom[w], chunk) = chunk

\* the record is between mempool_alloc and epoll_ctl of the
\* _worker_client_add that is making it
BeingAdded(p) == srv.pc = "add_register" /\ srv.client = p

\* C15: a worker's epoll set holds exactly the records allocated in its
\* slab, and every pointer the event loop dispatches, later entries of a
\* batch included, refers to an allocated record.
C15_EpollIffAllocated ==
    /\ \A w \in Workers : \A f \in FDs :
          sys.ep[w][f].ptr # NULL =>
             (sys.ep[w][f].ptr \in PtrsOf(w) /\ sys.alloc[sys.ep[w][f].ptr])
    /\ \A p \in Ptrs :
          (sys.alloc[p] /\ ~BeingAdded(p) /\ WorkerRunning(OwnerOf(p)))
          => p \in Deliverable(sys, OwnerOf(p))
    /\ \A w \in Workers :
          wpc[w] = "handle" => sys.alloc[Head(batch[w])]

C18_DestroyTerminates ==
    (srv.pc = "destroy_join" /\ wpc[srv.i] # "exited") => is_alive[srv.i] = 0

\* C19: _worker_handle_client_state does not touch a record that
\* _worker_client_del has freed: the record it is about to store the state
\* into (line 305) is allocated.
C19_NoAccessAfterFree ==
    \A w \in Workers : wpc[w] = "store" => sys.alloc[wcl[w]]

\* C20: no record is dispatched before _worker_client_add has written its
\* fields: the record a worker takes from its event batch is not the one
\* the server thread is still initialising.
C20_NoDispatchBeforeInit ==
    [][ \A w \in Workers :
          (wpc[w] = "handle" /\ wpc'[w] = "store")
          => ~(srv.pc = "add_init" /\ srv.client = Head(batch[w]))
      ]_vars
=============================================================================
